---- MODULE Spec2Model ----
(***************************************************************************)
(* Verification model of three files of the transformers repository:       *)
(*   models/dpt/configuration_dpt.py             (DPTConfig)               *)
(*   models/oneformer/configuration_oneformer.py (OneFormerConfig)         *)
(*   models/pix2seq/convert_pix2seq_to_pytorch.py (rename_key, driver)     *)
(*                                                                         *)
(* Python strings are TLA+ strings; str.replace, the `in` test and         *)
(* str.startswith are computed character by character.  A numpy array is   *)
(* a record [shape, data]: data is the array in row-major (C) order, so a  *)
(* reshape keeps data and a transpose permutes it.                         *)
(***************************************************************************)
EXTENDS Integers, Sequences, FiniteSets, TLC

VARIABLES
    rk_name,      \* rename_key: the name argument
    rk_param,     \* rename_key: the param argument
    rk_out,       \* rename_key: the value returned (NoReturn before the call)
    init_vars,    \* convert_pix2seq_checkpoint: the (name, shape) list of the checkpoint
    tf_vars,      \* convert_pix2seq_checkpoint: the dict of loaded arrays, in insertion order
    tensors,      \* the torch tensors created so far; a tensor is known by its position
    state_dict,   \* convert_pix2seq_checkpoint: target name -> tensor
    loaded,       \* the argument load_state_dict was called with
    pc,           \* convert_pix2seq_checkpoint: the statement that runs next
    loop_i,       \* position of the running loop in its list
    error,        \* the exception that ended convert_pix2seq_checkpoint, or "None"
    py_lists,     \* the Python list objects; a list is known by its position
    dpt_configs,  \* the DPTConfig instances constructed so far
    dpt_last,     \* the latest DPTConfig(...) call: its keywords and outcome,
                  \* and for each instance the list parameters its call omitted
    of_heap,      \* the dicts and config objects; an object is known by its position
    of_args,      \* OneFormerConfig(...): the four arguments as they were at the call
    of_kwargs,    \* OneFormerConfig(...): the **kwargs of the call
    of_config,    \* the OneFormerConfig instance, once constructed
    of_raised,    \* the outcome of OneFormerConfig(...): "NotCalled", "None" or the exception
    of_output,    \* the value the latest to_dict() returned
    of_last       \* the operation performed last on the OneFormerConfig

rk_vars == <<rk_name, rk_param, rk_out>>
cv_vars == <<init_vars, tf_vars, tensors, state_dict, loaded, pc, loop_i, error>>

dpt_vars == <<py_lists, dpt_configs, dpt_last>>
of_vars == <<of_heap, of_args, of_kwargs, of_config, of_raised, of_output, of_last>>
vars == <<rk_vars, cv_vars, dpt_vars, of_vars>>

(***************************************************************************)
(* Bounds of the model.                                                    *)
(***************************************************************************)
MaxDim == 3       \* every axis of an input array has MinDim..MaxDim entries
MaxRank == 4      \* input arrays have 1..MaxRank axes
MaxVectorRank == 2  \* ... and 1..MaxVectorRank axes when not a kernel
MaxCkptVars == 3  \* a checkpoint lists at most MaxCkptVars variables
MaxPassed == 1    \* a DPTConfig(...) call passes at most MaxPassed keywords
MaxCalls == 2     \* DPTConfig(...) is called at most MaxCalls times
MaxListLen == 5   \* a list is appended to while shorter than MaxListLen

(***************************************************************************)
(* Python str operations.                                                  *)
(***************************************************************************)
\* `pat in s`
Contains(s, pat) ==
    \E i \in 1..(Len(s) - Len(pat) + 1) : SubSeq(s, i, i + Len(pat) - 1) = pat

\* s.startswith(pat)
StartsWith(s, pat) ==
    Len(s) >= Len(pat) /\ SubSeq(s, 1, Len(pat)) = pat

\* the position of the leftmost occurrence of pat in s (pat is in s)
Find(s, pat) ==
    CHOOSE i \in 1..(Len(s) - Len(pat) + 1) :
        /\ SubSeq(s, i, i + Len(pat) - 1) = pat
        /\ \A j \in 1..(i - 1) : SubSeq(s, j, j + Len(pat) - 1) # pat

RECURSIVE Replace(_, _, _)
\* s.replace(old, new): every non-overlapping occurrence, left to right
Replace(s, old, new) ==
    IF ~Contains(s, old) THEN s
    ELSE LET i == Find(s, old)
         IN  SubSeq(s, 1, i - 1) \o new
                 \o Replace(SubSeq(s, i + Len(old), Len(s)), old, new)

UpperCase == "ABCDEFGHIJKLMNOPQRSTUVWXYZ"
LowerCase == "abcdefghijklmnopqrstuvwxyz"

RECURSIVE Lower(_)
\* s.lower()
Lower(s) ==
    IF Len(s) = 0 THEN s
    ELSE IF Len(s) = 1
         THEN IF Contains(UpperCase, s)
              THEN LET k == Find(UpperCase, s) IN SubSeq(LowerCase, k, k)
              ELSE s
         ELSE LET h == Len(s) \div 2
              IN  Lower(SubSeq(s, 1, h)) \o Lower(SubSeq(s, h + 1, Len(s)))

(***************************************************************************)
(* numpy operations on [shape, data].                                      *)
(***************************************************************************)
RECURSIVE Prod(_)
Prod(shape) == IF shape = <<>> THEN 1 ELSE Head(shape) * Prod(Tail(shape))

\* param.size
Size(param) == Prod(param.shape)

Reverse(seq) == [i \in 1..Len(seq) |-> seq[Len(seq) + 1 - i]]

RECURSIVE Ravel(_, _)
\* zero-based row-major offset of the zero-based multi-index idx
Ravel(idx, shape) ==
    IF shape = <<>> THEN 0
    ELSE Head(idx) * Prod(Tail(shape)) + Ravel(Tail(idx), Tail(shape))

RECURSIVE Unravel(_, _)
\* zero-based multi-index of the zero-based row-major offset k
Unravel(k, shape) ==
    IF shape = <<>> THEN <<>>
    ELSE <<k \div Prod(Tail(shape))>> \o Unravel(k % Prod(Tail(shape)), Tail(shape))

\* array.squeeze(): the axes with one entry are dropped
np_squeeze(param) ==
    [shape |-> SelectSeq(param.shape, LAMBDA d : d # 1), data |-> param.data]

\* np.reshape(param, (first, -1)): same data, the second axis is inferred
np_reshape2(param, first) ==
    [shape |-> <<first, Size(param) \div first>>, data |-> param.data]

\* param.flatten()
np_flatten(param) == [shape |-> <<Size(param)>>, data |-> param.data]

\* np.transpose(param, axes) with zero-based axes: axis i of the result is
\* axis axes[i] of param
np_transpose_axes(param, axes) ==
    LET newshape == [i \in 1..Len(axes) |-> param.shape[axes[i] + 1]]
        src(k) == LET out == Unravel(k, newshape)
                      inn == [a \in 1..Len(axes) |->
                                 out[CHOOSE i \in 1..Len(axes) : axes[i] + 1 = a]]
                  IN  Ravel(inn, param.shape)
    IN  [shape |-> newshape,
         data  |-> [k \in 1..Size(param) |-> param.data[src(k - 1) + 1]]]

\* np.transpose(param): the axes reversed
np_transpose(param) ==
    np_transpose_axes(param, Reverse([i \in 1..Len(param.shape) |-> i - 1]))

(***************************************************************************)
(* rename_key (convert_pix2seq_to_pytorch.py).  A rule is the statement    *)
(*     if <when> in name: name = name.replace(<old>, <new>)                *)
(* and a rule list is applied in the order of the source.                  *)
(***************************************************************************)
Rule(when, old, new) == [when |-> when, old |-> old, new |-> new]

ApplyRule(name, r) ==
    IF Contains(name, r.when) THEN Replace(name, r.old, r.new) ELSE name

RECURSIVE ApplyRules(_, _)
ApplyRules(name, rules) ==
    IF rules = <<>> THEN name
    ELSE LET n == ApplyRule(name, Head(rules))
         IN  IF Len(n) >= 0 THEN ApplyRules(n, Tail(rules)) ELSE n

ATTR_SUFFIX == "/.ATTRIBUTES/VARIABLE_VALUE"

\* a slip: the object-graph suffix is not stripped
general_renamings_keep_suffix(name) ==
    ApplyRules(name, << Rule("/", "/", ".") >>)

\* rename_key, "general renamings"
general_renamings(name) ==
    ApplyRules(name, << Rule(ATTR_SUFFIX, ATTR_SUFFIX, ""),
                        Rule("/", "/", ".") >>)

\* rename_key, "stem conv" and "stem layernorm"
StemRules == <<
    Rule("model.encoder.stem_conv", "model.encoder.stem_conv",
         "encoder.embeddings.patch_embeddings.projection"),
    Rule("model.encoder.stem_conv.bias", "model.encoder.stem_conv.bias",
         "encoder.embeddings.patch_embeddings.projection"),
    Rule("model.encoder.stem_ln", "model.encoder.stem_ln",
         "encoder.embeddings.patch_embeddings.layer_norm"),
    Rule("model.encoder.stem_ln.beta", "model.encoder.stem_ln",
         "encoder.embeddings.patch_embeddings.layer_norm") >>

\* rename_key, "encoder projection"
ProjectionRules == <<
    Rule("model.proj_ln", "model.proj_ln", "projection.layernorm"),
    Rule("model.proj_mlp.layernorms.0", "model.proj_mlp.layernorms.0",
         "projection.projection_mlp.layernorm"),
    Rule("model.proj_mlp.mlp_layers.0", "model.proj_mlp.mlp_layers.0",
         "projection.projection_mlp"),
    Rule("model.proj", "model.proj", "projection.projection") >>

\* rename_key, "decoder embeddings, output bias and layernorm"
DecoderEmbeddingRules == <<
    Rule("model.decoder.ar_decoder.Stoken_embedding",
         "model.decoder.ar_decoder.Stoken_embedding", "decoder.embed_tokens.weight"),
    Rule("model.decoder.ar_decoder.Sseq_pos_embedding",
         "model.decoder.ar_decoder.Sseq_pos_embedding",
         "decoder.embed_positions.embeddings"),
    Rule("model.decoder.ar_decoder.Soutp_bias",
         "model.decoder.ar_decoder.Soutp_bias", "lm_head.bias"),
    Rule("model.decoder.output_ln", "model.decoder.output_ln", "output_layernorm") >>

\* rename_key, "decoder layers", the rules before `if "decoder" in name`
DecoderLayerRules == <<
    Rule("model.decoder.decoder.dec_layers", "model.decoder.decoder.dec_layers",
         "decoder.layers"),
    Rule("self_ln", "self_ln", "self_attn_layer_norm"),
    Rule("cross_ln", "cross_ln", "encoder_attn_layer_norm"),
    Rule("self_mha._query_dense", "self_mha._query_dense", "self_attn.q_proj"),
    Rule("self_mha._key_dense", "self_mha._key_dense", "self_attn.k_proj"),
    Rule("self_mha._value_dense", "self_mha._value_dense", "self_attn.v_proj"),
    Rule("self_mha._output_dense", "self_mha._output_dense", "self_attn.out_proj"),
    Rule("cross_mha._query_dense", "cross_mha._query_dense", "encoder_attn.q_proj"),
    Rule("cross_mha._key_dense", "cross_mha._key_dense", "encoder_attn.k_proj"),
    Rule("cross_mha._value_dense", "cross_mha._value_dense", "encoder_attn.v_proj"),
    Rule("cross_mha._output_dense", "cross_mha._output_dense",
         "encoder_attn.out_proj") >>

\* rename_key, the rules nested in `if "decoder" in name`
DecoderMlpRules == <<
    Rule("mlp.mlp_layers.0.dense1", "mlp.mlp_layers.0.dense1", "fc1"),
    Rule("mlp.mlp_layers.0.dense2", "mlp.mlp_layers.0.dense2", "fc2"),
    Rule("mlp.layernorms.0", "mlp.layernorms.0", "layernorm") >>

\* a slip: the short pattern "mha" is tried before the longer ones
EncoderLayerRules_mha_first == <<
    Rule("model.encoder.transformer_encoder.enc_layers",
         "model.encoder.transformer_encoder.enc_layers", "encoder.layer"),
    Rule("mha", "mha", "attention.attention"),
    Rule("mha_ln", "mha_ln", "layernorm_before"),
    Rule("mha._output_dense", "mha._output_dense", "attention.output.dense"),
    Rule("_query_dense", "_query_dense", "query"),
    Rule("_key_dense", "_key_dense", "key"),
    Rule("_value_dense", "_value_dense", "value"),
    Rule("mlp.mlp_layers.0.dense1", "mlp.mlp_layers.0.dense1", "intermediate.dense"),
    Rule("mlp.mlp_layers.0.dense2", "mlp.mlp_layers.0.dense2", "output.dense"),
    Rule("mlp.layernorms.0", "mlp.layernorms.0", "layernorm_after"),
    Rule("model.encoder.output_ln", "model.encoder.output_ln", "layernorm") >>

\* rename_key, "encoder layers" and "output layer norm"
EncoderLayerRules == <<
    Rule("model.encoder.transformer_encoder.enc_layers",
         "model.encoder.transformer_encoder.enc_layers", "encoder.layer"),
    Rule("mha_ln", "mha_ln", "layernorm_before"),
    Rule("mha._output_dense", "mha._output_dense", "attention.output.dense"),
    Rule("mha", "mha", "attention.attention"),
    Rule("_query_dense", "_query_dense", "query"),
    Rule("_key_dense", "_key_dense", "key"),
    Rule("_value_dense", "_value_dense", "value"),
    Rule("mlp.mlp_layers.0.dense1", "mlp.mlp_layers.0.dense1", "intermediate.dense"),
    Rule("mlp.mlp_layers.0.dense2", "mlp.mlp_layers.0.dense2", "output.dense"),
    Rule("mlp.layernorms.0", "mlp.layernorms.0", "layernorm_after"),
    Rule("model.encoder.output_ln", "model.encoder.output_ln", "layernorm") >>

\* rename_key, lines 26-107: the region-specific rules, in source order
structural_renamings(name) ==
    LET n1 == ApplyRules(name, StemRules \o ProjectionRules
                               \o DecoderEmbeddingRules \o DecoderLayerRules)
        n2 == IF Contains(n1, "decoder") THEN ApplyRules(n1, DecoderMlpRules) ELSE n1
    IN  ApplyRules(n2, EncoderLayerRules)

(***************************************************************************)
(* rename_key, the tensor part.  A step that numpy refuses (an axis the    *)
(* array does not have) raises; the exception leaves rename_key.           *)
(***************************************************************************)
Rank(param) == Len(param.shape)

Ok(param) == [raised |-> "None", param |-> param]
Raise(exc) == [raised |-> exc, param |-> [shape |-> <<>>, data |-> <<>>]]

\* np.reshape(param, (param.shape[-1], -1)), attention output projections
out_proj_reshape(param) ==
    IF Rank(param) = 0 THEN Raise("IndexError")
    ELSE Ok(np_reshape2(param, param.shape[Rank(param)]))

\* a slip: the leading axis taken from the wrong end of the shape
qkv_kernel_reshape_last_axis(param) ==
    IF Rank(param) = 0 THEN Raise("IndexError")
    ELSE Ok(np_reshape2(param, param.shape[Rank(param)]))

\* np.reshape(param, (param.shape[0], -1)), query/key/value kernels
qkv_kernel_reshape(param) ==
    IF Rank(param) = 0 THEN Raise("IndexError")
    ELSE Ok(np_reshape2(param, param.shape[1]))

\* the condition of the second `if` of "handle qkv"
is_qkv(name) ==
    \/ Contains(name, "query") \/ Contains(name, "key") \/ Contains(name, "value")
    \/ Contains(name, "q_proj") \/ Contains(name, "k_proj") \/ Contains(name, "v_proj")

\* rename_key, "handle qkv"
handle_qkv(name, param) ==
    LET p1 == IF /\ (Contains(name, "attention.output.dense") \/ Contains(name, "out_proj"))
                 /\ Contains(name, "kernel")
              THEN out_proj_reshape(param)
              ELSE Ok(param)
    IN  IF p1.raised # "None" THEN p1
        ELSE IF is_qkv(name)
             THEN IF Contains(name, "kernel") THEN qkv_kernel_reshape(p1.param)
                  ELSE IF Contains(name, "bias") THEN Ok(np_flatten(p1.param))
                  ELSE p1
             ELSE p1

\* a slip: the conv2d kernel transposed like a dense kernel
conv_transpose_plain(param) ==
    IF Rank(param) # 4 THEN Raise("ValueError")
    ELSE Ok(np_transpose(param))

\* np.transpose(param, axes=(3, 2, 0, 1)), the conv2d kernel
conv_transpose(param) ==
    IF Rank(param) # 4 THEN Raise("ValueError")
    ELSE Ok(np_transpose_axes(param, <<3, 2, 0, 1>>))

\* rename_key, "rename kernel, gamma and beta": the name
rename_kernel_gamma_beta(name) ==
    ApplyRules(name, << Rule("kernel", "kernel", "weight"),
                        Rule("gamma", "gamma", "weight"),
                        Rule("beta", "beta", "bias") >>)

\* rename_key, "rename kernel, gamma and beta": the transpose of a kernel
transpose_kernel(name, param) ==
    IF Contains(name, "kernel")
    THEN IF Contains(Replace(name, "kernel", "weight"), "patch_embeddings")
         THEN conv_transpose(param)
         ELSE Ok(np_transpose(param))
    ELSE Ok(param)

\* a slip: the prefix added without the two exemptions
add_prefix_always(name) == "model." \o name

\* rename_key, "add prefix"
add_prefix(name) ==
    IF (~StartsWith(name, "lm_head")) /\ (~Contains(name, "output_layernorm"))
    THEN "model." \o name
    ELSE name

\* the name rename_key has computed when it reaches "add prefix"
rewritten_name(name) ==
    rename_kernel_gamma_beta(structural_renamings(general_renamings(name)))

\* rename_key(name, param): [raised, name, param]
rename_key(name, param) ==
    LET n == structural_renamings(general_renamings(name))
        q == handle_qkv(n, param)
        t == IF q.raised # "None" THEN q ELSE transpose_kernel(n, q.param)
    IN  IF t.raised # "None"
        THEN [raised |-> t.raised, name |-> "", param |-> t.param]
        ELSE [raised |-> "None",
              name   |-> add_prefix(rename_kernel_gamma_beta(n)),
              param  |-> t.param]

(***************************************************************************)
(* The driver squeezes every array it loads, so no axis of an array that   *)
(* reaches rename_key has a single entry.                                  *)
(***************************************************************************)
MinDim == 2

(***************************************************************************)
(* The inputs of rename_key: the variable names of a Pix2Seq TensorFlow    *)
(* checkpoint, with and without the object-graph suffix, a few names no    *)
(* region rule knows, and arrays of every shape within the bounds.  The    *)
(* entries of an input array are its row-major positions 1..size, so that  *)
(* the result shows where every entry went.                                *)
(***************************************************************************)
LayerIndices == {"0", "11"}

Cat(prefixes, leaves) == {p \o l : p \in prefixes, l \in leaves}

DenseLeaves == {"/kernel", "/bias"}
NormLeaves == {"/gamma", "/beta"}
MhaNames == Cat({"/_query_dense", "/_key_dense", "/_value_dense", "/_output_dense"},
                DenseLeaves)
MlpNames == Cat({"/mlp/mlp_layers/0/dense1", "/mlp/mlp_layers/0/dense2"}, DenseLeaves)
                \cup Cat({"/mlp/layernorms/0"}, NormLeaves)

StemNames ==
    Cat({"model/encoder/stem_conv"}, DenseLeaves)
    \cup Cat({"model/encoder/stem_ln"}, NormLeaves)

ProjectionNames ==
    Cat({"model/proj", "model/proj_mlp/mlp_layers/0/dense1",
         "model/proj_mlp/mlp_layers/0/dense2"}, DenseLeaves)
    \cup Cat({"model/proj_ln", "model/proj_mlp/layernorms/0"}, NormLeaves)

DecoderTopNames ==
    {"model/decoder/ar_decoder/Stoken_embedding",
     "model/decoder/ar_decoder/Sseq_pos_embedding",
     "model/decoder/ar_decoder/Soutp_bias"}
    \cup Cat({"model/decoder/output_ln"}, NormLeaves)

DecoderLayerNames ==
    Cat(Cat({"model/decoder/decoder/dec_layers/"}, LayerIndices),
        Cat({"/self_ln", "/cross_ln"}, NormLeaves)
        \cup Cat({"/self_mha", "/cross_mha"}, MhaNames)
        \cup MlpNames)

EncoderLayerNames ==
    Cat(Cat({"model/encoder/transformer_encoder/enc_layers/"}, LayerIndices),
        Cat({"/mha_ln"}, NormLeaves) \cup Cat({"/mha"}, MhaNames) \cup MlpNames)

EncoderTopNames == Cat({"model/encoder/output_ln"}, NormLeaves)

\* names that none of the region rules mentions
UnknownNames ==
    Cat({"model/encoder/extra_dense"}, DenseLeaves)
    \cup Cat({"model/extra_ln"}, NormLeaves)
    \cup {"model/step"}

BareNames ==
    StemNames \cup ProjectionNames \cup DecoderTopNames \cup DecoderLayerNames
    \cup EncoderLayerNames \cup EncoderTopNames \cup UnknownNames

SourceNames == BareNames \cup Cat(BareNames, {ATTR_SUFFIX})

RECURSIVE ShapesOfRank(_)
ShapesOfRank(r) ==
    IF r = 0 THEN {<<>>}
    ELSE {<<d>> \o s : d \in MinDim..MaxDim, s \in ShapesOfRank(r - 1)}

Shapes == UNION {ShapesOfRank(r) : r \in 1..MaxRank}

\* the array of the given shape whose entries are 1..size in row-major order
Array(shape) == [shape |-> shape, data |-> [k \in 1..Prod(shape) |-> k]]

\* the entry of param at the zero-based multi-index idx
At(param, idx) == param.data[Ravel(idx, param.shape) + 1]

NoReturn == [raised |-> "NotCalled", name |-> "", param |-> [shape |-> <<>>, data |-> <<>>]]

\* the shapes a variable of that name is given: a kernel has any shape, the
\* other variables (biases, norm scales and shifts, embeddings) have at most
\* MaxVectorRank axes
ShapesFor(name) ==
    IF Contains(name, "kernel") THEN Shapes
    ELSE UNION {ShapesOfRank(r) : r \in 1..MaxVectorRank}

\* rename_key at rest, while another part is examined
RenameIdle ==
    /\ rk_name = ""
    /\ rk_param = Array(<<>>)
    /\ rk_out = NoReturn

\* DPTConfig at rest: the three default lists of the signature exist
DPTIdle ==
    /\ py_lists = << <<"2", "5", "8", "11">>, <<"4", "2", "1", "0.5">>,
                     <<"96", "192", "384", "768">> >>
    /\ dpt_configs = <<>>
    /\ dpt_last = [calls |-> 0, scalars |-> <<>>, lists |-> <<>>, raised |-> "None",
                   omitted |-> <<>>]

\* no OneFormerConfig, no to_dict() result
NoConfig == [refs |-> <<>>, attrs |-> <<>>]
NoOutput == [nested |-> <<>>, attrs |-> <<>>]

\* OneFormerConfig at rest, while another part is examined
OneFormerIdle ==
    /\ of_heap = <<>>
    /\ of_args = <<>>
    /\ of_kwargs = <<>>
    /\ of_config = NoConfig
    /\ of_raised = "NotCalled"
    /\ of_output = NoOutput
    /\ of_last = "idle"

\* the driver at rest, while another part is examined
ConvertIdle ==
    /\ init_vars = <<>>
    /\ tf_vars = <<>>
    /\ tensors = <<>>
    /\ state_dict = <<>>
    /\ loaded = [called |-> FALSE, arg |-> <<>>]
    /\ pc = "idle"
    /\ loop_i = 0
    /\ error = "None"

RenameInit ==
    /\ rk_name \in SourceNames
    /\ rk_param \in {Array(s) : s \in ShapesFor(rk_name)}
    /\ rk_out = NoReturn
    /\ ConvertIdle
    /\ DPTIdle
    /\ OneFormerIdle

\* one call rename_key(rk_name, rk_param)
RenameKeyCall ==
    /\ rk_out = NoReturn
    /\ rk_out' = rename_key(rk_name, rk_param)
    /\ UNCHANGED <<rk_name, rk_param>>
    /\ UNCHANGED <<cv_vars, dpt_vars, of_vars>>

RenameNext == RenameKeyCall

SpecRename == RenameInit /\ [][RenameNext]_vars

(***************************************************************************)
(* Properties of rename_key, checked under SpecRename.                     *)
(***************************************************************************)
Returned == rk_out # NoReturn /\ rk_out.raised = "None"

WithSuffix(names) == names \cup Cat(names, {ATTR_SUFFIX})

C6_StemConv ==
    /\ (/\ rk_out # NoReturn
        /\ rk_name \in WithSuffix({"model/encoder/stem_conv/kernel"})
        /\ Rank(rk_param) = 4)
       => LET sh == rk_param.shape
          IN  /\ rk_out.raised = "None"
              /\ rk_out.name = "model.encoder.embeddings.patch_embeddings.projection.weight"
              /\ rk_out.param.shape = <<sh[4], sh[3], sh[1], sh[2]>>
              /\ \A y \in 0..(sh[1] - 1), x \in 0..(sh[2] - 1),
                    c \in 0..(sh[3] - 1), o \in 0..(sh[4] - 1) :
                     At(rk_out.param, <<o, c, y, x>>) = At(rk_param, <<y, x, c, o>>)
    /\ (/\ rk_out # NoReturn
        /\ rk_name \in WithSuffix({"model/encoder/stem_conv/bias"})
        /\ Rank(rk_param) = 1)
       => /\ rk_out.raised = "None"
          /\ rk_out.name = "model.encoder.embeddings.patch_embeddings.projection.bias"
          /\ rk_out.param = rk_param

C6_Witness ==
    /\ Returned
    /\ rk_name = "model/encoder/stem_conv/kernel"
    /\ Rank(rk_param) = 4
    /\ rk_param.shape[1] # rk_param.shape[2]
    /\ rk_param.shape[3] # rk_param.shape[4]
    /\ rk_out.param.data # rk_param.data

\* the query/key/value kernels of the encoder and decoder layers
QkvKernelNames ==
    WithSuffix(
        Cat(Cat({"model/encoder/transformer_encoder/enc_layers/"}, LayerIndices),
            Cat({"/mha"}, {"/_query_dense/kernel", "/_key_dense/kernel",
                           "/_value_dense/kernel"}))
        \cup
        Cat(Cat({"model/decoder/decoder/dec_layers/"}, LayerIndices),
            Cat({"/self_mha", "/cross_mha"},
                {"/_query_dense/kernel", "/_key_dense/kernel", "/_value_dense/kernel"})))

QkvKernelCall ==
    rk_out # NoReturn /\ rk_name \in QkvKernelNames /\ Rank(rk_param) = 3

\* C7 as stated: a rank-3 query/key/value kernel of shape (H, D, O) comes back
\* as a rank-2 tensor of shape (H*D, O) or (D, H*O) with H*D*O entries.
C7_ShapeLaw_AsStated ==
    QkvKernelCall =>
        LET H == rk_param.shape[1]
            D == rk_param.shape[2]
            O == rk_param.shape[3]
        IN  /\ rk_out.raised = "None"
            /\ rk_out.param.shape \in {<<H * D, O>>, <<D, H * O>>}
            /\ Len(rk_out.param.data) = H * D * O

\* C7, amended: a rank-3 query/key/value kernel of shape (H, D, O) comes back
\* as a rank-2 tensor of shape (D*O, H) with H*D*O entries.
C7_ShapeLaw ==
    QkvKernelCall =>
        LET H == rk_param.shape[1]
            D == rk_param.shape[2]
            O == rk_param.shape[3]
        IN  /\ rk_out.raised = "None"
            /\ rk_out.param.shape = <<D * O, H>>
            /\ Len(rk_out.param.data) = H * D * O
            /\ Prod(rk_out.param.shape) = H * D * O

C7_Witness ==
    /\ QkvKernelCall
    /\ rk_out.raised = "None"
    /\ rk_name = "model/decoder/decoder/dec_layers/0/cross_mha/_key_dense/kernel"
    /\ rk_param.shape = <<2, 2, 3>>
    /\ rk_out.param.shape = <<6, 2>>

\* the generic part of rename_key written out with str.replace alone
GenericName(name) == Replace(Replace(name, ATTR_SUFFIX, ""), "/", ".")

AllRegionRules ==
    StemRules \o ProjectionRules \o DecoderEmbeddingRules \o DecoderLayerRules
    \o DecoderMlpRules \o EncoderLayerRules

\* the name matches none of the region-specific rules
NoRegionRule(name) ==
    LET g == GenericName(name)
    IN  \A i \in 1..Len(AllRegionRules) : ~Contains(g, AllRegionRules[i].when)

\* C10 as stated: for a name that matches no region rule no error is raised
\* and the returned name is "model." followed by the source name without the
\* suffix and with "." for "/".
C10_SilentFallback_AsStated ==
    (rk_out # NoReturn /\ NoRegionRule(rk_name)) =>
        /\ rk_out.raised = "None"
        /\ rk_out.name = "model." \o GenericName(rk_name)

\* the markers that make rename_key reshape or specially transpose the tensor
HasTensorMarker(g) ==
    \E m \in {"query", "key", "value", "q_proj", "k_proj", "v_proj",
              "out_proj", "attention.output.dense", "patch_embeddings"} :
        Contains(g, m)

\* C10, amended: for a name that matches no region rule the name rules raise
\* nothing, and the returned name is the source name without the suffix, with
\* "." for "/", with "kernel" and "gamma" turned into "weight" and "beta"
\* into "bias", prefixed with "model." unless it starts with "lm_head" or
\* contains "output_layernorm".  (Only a tensor step can raise, and only for
\* a name carrying a tensor marker.)
C10_SilentFallback ==
    (rk_out # NoReturn /\ NoRegionRule(rk_name)) =>
        LET g == GenericName(rk_name)
            w == Replace(Replace(Replace(g, "kernel", "weight"),
                                 "gamma", "weight"), "beta", "bias")
            expected == IF StartsWith(w, "lm_head") \/ Contains(w, "output_layernorm")
                        THEN w ELSE "model." \o w
        IN  /\ (~HasTensorMarker(g)) => rk_out.raised = "None"
            /\ rk_out.raised = "None" => rk_out.name = expected

C10_Witness ==
    /\ Returned
    /\ NoRegionRule(rk_name)
    /\ rk_name = "model/encoder/extra_dense/kernel" \o ATTR_SUFFIX
    /\ rk_out.name = "model.model.encoder.extra_dense.weight"

OutProjKernelNames ==
    WithSuffix(
        Cat(Cat({"model/encoder/transformer_encoder/enc_layers/"}, LayerIndices),
            {"/mha/_output_dense/kernel"})
        \cup
        Cat(Cat({"model/decoder/decoder/dec_layers/"}, LayerIndices),
            {"/self_mha/_output_dense/kernel", "/cross_mha/_output_dense/kernel"}))

OutProjKernelCall ==
    rk_out # NoReturn /\ rk_name \in OutProjKernelNames /\ Rank(rk_param) = 3

EncoderLayerTargets ==
    ("mha_ln" :> "layernorm_before")
    @@ ("mha/_output_dense" :> "attention.output.dense")
    @@ ("mha/_query_dense" :> "attention.attention.query")
    @@ ("mha/_key_dense" :> "attention.attention.key")
    @@ ("mha/_value_dense" :> "attention.attention.value")
    @@ ("mlp/mlp_layers/0/dense1" :> "intermediate.dense")
    @@ ("mlp/mlp_layers/0/dense2" :> "output.dense")
    @@ ("mlp/layernorms/0" :> "layernorm_after")

DecoderLayerTargets ==
    ("self_ln" :> "self_attn_layer_norm")
    @@ ("cross_ln" :> "encoder_attn_layer_norm")
    @@ ("self_mha/_query_dense" :> "self_attn.q_proj")
    @@ ("self_mha/_key_dense" :> "self_attn.k_proj")
    @@ ("self_mha/_value_dense" :> "self_attn.v_proj")
    @@ ("self_mha/_output_dense" :> "self_attn.out_proj")
    @@ ("cross_mha/_query_dense" :> "encoder_attn.q_proj")
    @@ ("cross_mha/_key_dense" :> "encoder_attn.k_proj")
    @@ ("cross_mha/_value_dense" :> "encoder_attn.v_proj")
    @@ ("cross_mha/_output_dense" :> "encoder_attn.out_proj")
    @@ ("mlp/mlp_layers/0/dense1" :> "fc1")
    @@ ("mlp/mlp_layers/0/dense2" :> "fc2")
    @@ ("mlp/layernorms/0" :> "layernorm")

LeafTargets ==
    ("kernel" :> "weight") @@ ("bias" :> "bias")
    @@ ("gamma" :> "weight") @@ ("beta" :> "bias")

EncoderTargetFragments ==
    {"attention.attention", "attention.output.dense", "layernorm_before",
     "layernorm_after", "intermediate.dense", "output.dense"}

ENC_LAYERS == "model/encoder/transformer_encoder/enc_layers/"
DEC_LAYERS == "model/decoder/decoder/dec_layers/"

\* C13: every per-layer fragment is rewritten by its most specific rule only.
\* An encoder-layer variable <i>/<fragment>/<leaf> comes back as
\* model.encoder.layer.<i>.<target>.<leaf>, a decoder-layer variable as
\* model.decoder.layers.<i>.<target>.<leaf>, with the targets of the two
\* tables above, and no returned decoder-layer name contains an
\* encoder-region target fragment.
C13_RuleOrder ==
    Returned =>
        \A i \in LayerIndices, l \in DOMAIN LeafTargets :
            /\ \A f \in DOMAIN EncoderLayerTargets :
                   rk_name \in WithSuffix({ENC_LAYERS \o i \o "/" \o f \o "/" \o l})
                   => rk_out.name = "model.encoder.layer." \o i \o "."
                                      \o EncoderLayerTargets[f] \o "." \o LeafTargets[l]
            /\ \A f \in DOMAIN DecoderLayerTargets :
                   rk_name \in WithSuffix({DEC_LAYERS \o i \o "/" \o f \o "/" \o l})
                   => /\ rk_out.name = "model.decoder.layers." \o i \o "."
                                         \o DecoderLayerTargets[f] \o "." \o LeafTargets[l]
                      /\ \A e \in EncoderTargetFragments : ~Contains(rk_out.name, e)

C13_Witness ==
    /\ Returned
    /\ rk_name = "model/encoder/transformer_encoder/enc_layers/11/mha_ln/gamma"
    /\ rk_out.name = "model.encoder.layer.11.layernorm_before.weight"

(***************************************************************************)
(* convert_pix2seq_checkpoint: the driver.  The checkpoint reader, torch    *)
(* and the model are outside the repository: list_variables yields          *)
(* init_vars, load_variable yields the array of a variable, from_numpy      *)
(* makes a new tensor of an array, load_state_dict receives the mapping.    *)
(***************************************************************************)
TOKEN_EMBEDDING == "model/decoder/ar_decoder/Stoken_embedding" \o ATTR_SUFFIX

\* the variables a checkpoint is made of in this model, with their shapes
CkptPool == {
    [name |-> TOKEN_EMBEDDING, shape |-> <<3, 2>>],
    [name |-> "model/decoder/ar_decoder/Soutp_bias" \o ATTR_SUFFIX, shape |-> <<3>>],
    [name |-> "model/proj/kernel" \o ATTR_SUFFIX, shape |-> <<2, 3>>],
    [name |-> "model/encoder/stem_conv/kernel" \o ATTR_SUFFIX, shape |-> <<1, 2, 2, 2>>],
    [name |-> "optimizer/iter" \o ATTR_SUFFIX, shape |-> <<1>>],
    [name |-> "model/Optimizer/m" \o ATTR_SUFFIX, shape |-> <<2>>] }

\* the lists of n distinct variables of the pool, in any order
Listings(n) ==
    {l \in [1..n -> CkptPool] : \A i, j \in 1..n : i # j => l[i].name # l[j].name}

\* dict lookups and stores on a sequence of [key, value] kept in insertion order
HasKey(dict, key) == \E i \in 1..Len(dict) : dict[i].key = key
Get(dict, key) == dict[CHOOSE i \in 1..Len(dict) : dict[i].key = key].value
Put(dict, key, value) ==
    IF HasKey(dict, key)
    THEN [i \in 1..Len(dict) |->
             IF dict[i].key = key THEN [key |-> key, value |-> value] ELSE dict[i]]
    ELSE Append(dict, [key |-> key, value |-> value])

ConvertInit ==
    /\ init_vars \in UNION {Listings(n) : n \in 0..MaxCkptVars}
    /\ tf_vars = <<>>
    /\ tensors = <<>>
    /\ state_dict = <<>>
    /\ loaded = [called |-> FALSE, arg |-> <<>>]
    /\ pc = "load"
    /\ loop_i = 1
    /\ error = "None"
    /\ RenameIdle
    /\ DPTIdle
    /\ OneFormerIdle

\* "Load weights from TF model": one turn of the loop over init_vars
LoadVariable ==
    /\ pc = "load"
    /\ loop_i <= Len(init_vars)
    /\ LET name == init_vars[loop_i].name
           array == Array(init_vars[loop_i].shape)
       IN  tf_vars' = IF Contains(name, "model") /\ ~Contains(Lower(name), "optimizer")
                      THEN Put(tf_vars, name, np_squeeze(array))
                      ELSE tf_vars
    /\ loop_i' = loop_i + 1
    /\ UNCHANGED <<init_vars, tensors, state_dict, loaded, pc, error>>
    /\ UNCHANGED <<rk_vars, dpt_vars, of_vars>>

\* the loop over init_vars is exhausted: state_dict = {} and the next loop starts
StartRename ==
    /\ pc = "load"
    /\ loop_i > Len(init_vars)
    /\ state_dict' = <<>>
    /\ pc' = "rename"
    /\ loop_i' = 1
    /\ UNCHANGED <<init_vars, tf_vars, tensors, loaded, error>>
    /\ UNCHANGED <<rk_vars, dpt_vars, of_vars>>

\* "Rename keys": one turn of the loop over tf_vars.items()
RenameVariable ==
    /\ pc = "rename"
    /\ loop_i <= Len(tf_vars)
    /\ LET r == rename_key(tf_vars[loop_i].key, tf_vars[loop_i].value)
       IN  IF r.raised # "None"
           THEN /\ pc' = "raised"
                /\ error' = r.raised
                /\ UNCHANGED <<tensors, state_dict, loop_i>>
           ELSE \* state_dict[name] = torch.from_numpy(param)
                /\ tensors' = Append(tensors, r.param)
                /\ state_dict' = Put(state_dict, r.name, Len(tensors) + 1)
                /\ loop_i' = loop_i + 1
                /\ UNCHANGED <<pc, error>>
    /\ UNCHANGED <<init_vars, tf_vars, loaded>>
    /\ UNCHANGED <<rk_vars, dpt_vars, of_vars>>

\* the loop over tf_vars is exhausted
FinishRename ==
    /\ pc = "rename"
    /\ loop_i > Len(tf_vars)
    /\ pc' = "tie"
    /\ UNCHANGED <<init_vars, tf_vars, tensors, state_dict, loaded, loop_i, error>>
    /\ UNCHANGED <<rk_vars, dpt_vars, of_vars>>

EMBED_TOKENS == "model.decoder.embed_tokens.weight"

\* a slip: the head is given a copy of the embedding tensor
set_lm_head_copy(sd, ts) ==
    [state_dict |-> Put(sd, "lm_head.weight", Len(ts) + 1),
     tensors    |-> Append(ts, ts[Get(sd, EMBED_TOKENS)])]

\* state_dict["lm_head.weight"] = state_dict["model.decoder.embed_tokens.weight"]
set_lm_head(sd, ts) ==
    [state_dict |-> Put(sd, "lm_head.weight", Get(sd, EMBED_TOKENS)),
     tensors    |-> ts]

\* "Set weights of lm head"
TieWeights ==
    /\ pc = "tie"
    /\ IF HasKey(state_dict, EMBED_TOKENS)
       THEN LET t == set_lm_head(state_dict, tensors)
            IN  /\ state_dict' = t.state_dict
                /\ tensors' = t.tensors
                /\ pc' = "load_state_dict"
                /\ UNCHANGED error
       ELSE /\ pc' = "raised"
            /\ error' = "KeyError"
            /\ UNCHANGED <<state_dict, tensors>>
    /\ UNCHANGED <<init_vars, tf_vars, loaded, loop_i>>
    /\ UNCHANGED <<rk_vars, dpt_vars, of_vars>>

\* model.load_state_dict(state_dict): the mapping is handed to the model
LoadStateDict ==
    /\ pc = "load_state_dict"
    /\ loaded' = [called |-> TRUE, arg |-> state_dict]
    /\ pc' = "loaded"
    /\ UNCHANGED <<init_vars, tf_vars, tensors, state_dict, loop_i, error>>
    /\ UNCHANGED <<rk_vars, dpt_vars, of_vars>>

ConvertNext ==
    \/ LoadVariable
    \/ StartRename
    \/ RenameVariable
    \/ FinishRename
    \/ TieWeights
    \/ LoadStateDict

SpecConvert == ConvertInit /\ [][ConvertNext]_vars

(***************************************************************************)
(* Properties of the driver, checked under SpecConvert.                    *)
(***************************************************************************)
HasTokenEmbedding == \E i \in 1..Len(init_vars) : init_vars[i].name = TOKEN_EMBEDDING

\* every variable of tf_vars has been rewritten into the mapping
AllRewritten(sd) ==
    /\ loop_i > Len(tf_vars)
    /\ \A i \in 1..Len(tf_vars) :
           HasKey(sd, rename_key(tf_vars[i].key, tf_vars[i].value).name)

\* lm_head.weight and the token embedding are one tensor, not two equal ones
Tied(sd) ==
    /\ HasKey(sd, "lm_head.weight")
    /\ HasKey(sd, EMBED_TOKENS)
    /\ Get(sd, "lm_head.weight") = Get(sd, EMBED_TOKENS)

\* C8: for a checkpoint that contains the decoder token embedding, the tying
\* step runs after every variable has been rewritten and before the mapping
\* is handed to load_state_dict, and the mapping handed over has
\* lm_head.weight and model.decoder.embed_tokens.weight as the same tensor.
C8_TiedAtHandOff ==
    HasTokenEmbedding =>
        /\ pc = "tie" => (AllRewritten(state_dict) /\ ~loaded.called)
        /\ HasKey(state_dict, "lm_head.weight") => AllRewritten(state_dict)
        /\ pc = "load_state_dict" => (Tied(state_dict) /\ ~loaded.called)
        /\ loaded.called => (Tied(loaded.arg) /\ AllRewritten(loaded.arg))

C8_Witness ==
    /\ HasTokenEmbedding
    /\ loaded.called
    /\ Len(tf_vars) >= 2
    /\ Tied(loaded.arg)
    /\ Len(loaded.arg) = Len(tf_vars) + 1

(***************************************************************************)
(* DPTConfig (configuration_dpt.py).  A scalar value is written as its     *)
(* Python literal; a list-valued field holds the position of a list object *)
(* in py_lists, so that two fields can hold the same list.                 *)
(***************************************************************************)
\* the list objects the `def` statement creates for the three list defaults
DefaultOutIndices == 1
DefaultReassembleFactors == 2
DefaultNeckHiddenSizes == 3

\* the defaults the class docstring documents ("defaults to ..."), a list
\* by its contents
DocumentedDefaults ==
    [hidden_size |-> "768",
     num_hidden_layers |-> "12",
     num_attention_heads |-> "12",
     intermediate_size |-> "3072",
     hidden_act |-> "gelu",
     hidden_dropout_prob |-> "0.1",
     attention_probs_dropout_prob |-> "0.1",
     initializer_range |-> "0.02",
     layer_norm_eps |-> "1e-12",
     image_size |-> "384",
     patch_size |-> "16",
     num_channels |-> "3",
     qkv_bias |-> "True",
     out_indices |-> <<"2", "5", "8", "11">>,
     readout_type |-> "project",
     reassemble_factors |-> <<"4", "2", "1", "0.5">>,
     neck_hidden_sizes |-> <<"96", "192", "384", "768">>,
     fusion_hidden_size |-> "256",
     in_index |-> "-1",
     use_batch_norm_in_fusion_residual |-> "False",
     use_auxiliary_head |-> "True",
     auxiliary_loss_weight |-> "0.4",
     semantic_loss_ignore_index |-> "255",
     semantic_classifier_dropout |-> "0.1"]

\* DPTConfig.__init__, the parameter defaults of the signature
DPTSignature ==
    [hidden_size |-> "768",
     num_hidden_layers |-> "12",
     num_attention_heads |-> "12",
     intermediate_size |-> "3072",
     hidden_act |-> "gelu",
     hidden_dropout_prob |-> "0.0",
     attention_probs_dropout_prob |-> "0.0",
     initializer_range |-> "0.02",
     layer_norm_eps |-> "1e-12",
     is_encoder_decoder |-> "False",
     image_size |-> "384",
     patch_size |-> "16",
     num_channels |-> "3",
     qkv_bias |-> "True",
     out_indices |-> DefaultOutIndices,
     readout_type |-> "project",
     reassemble_factors |-> DefaultReassembleFactors,
     neck_hidden_sizes |-> DefaultNeckHiddenSizes,
     fusion_hidden_size |-> "256",
     in_index |-> "-1",
     use_batch_norm_in_fusion_residual |-> "False",
     use_auxiliary_head |-> "True",
     auxiliary_loss_weight |-> "0.4",
     semantic_loss_ignore_index |-> "255",
     semantic_classifier_dropout |-> "0.1"]

ListParams == {"out_indices", "reassemble_factors", "neck_hidden_sizes"}
ScalarParams == DOMAIN DPTSignature \ ListParams

\* the values a caller passes for a scalar parameter in this model
ScalarChoices(param) ==
    IF param = "readout_type"
    THEN {"ignore", "add", "project", "concat", "Project", ""}
    ELSE IF DPTSignature[param] = "True" THEN {"False"}
    ELSE IF DPTSignature[param] = "False" THEN {"True"}
    ELSE IF param = "hidden_act" THEN {"relu"}
    ELSE IF param \in {"hidden_dropout_prob", "attention_probs_dropout_prob",
                       "initializer_range", "layer_norm_eps", "auxiliary_loss_weight",
                       "semantic_classifier_dropout"} THEN {"0.5"}
    ELSE {"1024"}

\* the lists a caller passes for a list parameter in this model
ListChoices(param) == {<<"0", "1", "2", "3">>}

RECURSIVE SubsetsUpTo(_, _)
\* the subsets of S with at most k elements
SubsetsUpTo(S, k) ==
    IF k = 0 THEN {{}}
    ELSE LET smaller == SubsetsUpTo(S, k - 1)
         IN  smaller \cup {T \cup {x} : T \in smaller, x \in S}

\* the keywords of a call over the parameter set N: [scalars, lists]
KeywordsOver(N) ==
    LET Ns == N \cap ScalarParams
        Nl == N \cap ListParams
    IN  [scalars : {f \in [Ns -> UNION {ScalarChoices(q) : q \in Ns}] :
                       \A q \in Ns : f[q] \in ScalarChoices(q)},
         lists   : {f \in [Nl -> UNION {ListChoices(q) : q \in Nl}] :
                       \A q \in Nl : f[q] \in ListChoices(q)}]

\* the keyword sets of a call: at most MaxPassed parameters are passed
Keywords ==
    UNION {KeywordsOver(N) : N \in SubsetsUpTo(DOMAIN DPTSignature, MaxPassed)}

\* the binding of a parameter: the value passed, else the default
BindScalar(scalars, param) ==
    IF param \in DOMAIN scalars THEN scalars[param] ELSE DPTSignature[param]

\* a slip: "add" is missing from the accepted readout types
readout_type_ok_without_add(readout_type) == readout_type \in {"ignore", "project"}

\* the test `readout_type not in ["ignore", "add", "project"]`, negated
readout_type_ok(readout_type) == readout_type \in {"ignore", "add", "project"}

\* DPTConfig.__init__ with every parameter bound: [raised, self]
DPTConfig__init__(a) ==
    IF ~readout_type_ok(a.readout_type)
    THEN [raised |-> "ValueError", self |-> <<>>]
    ELSE [raised |-> "None",
          self |->
            [hidden_size |-> a.hidden_size,
             num_hidden_layers |-> a.num_hidden_layers,
             num_attention_heads |-> a.num_attention_heads,
             intermediate_size |-> a.intermediate_size,
             hidden_act |-> a.hidden_act,
             hidden_dropout_prob |-> a.hidden_dropout_prob,
             attention_probs_dropout_prob |-> a.attention_probs_dropout_prob,
             initializer_range |-> a.initializer_range,
             layer_norm_eps |-> a.layer_norm_eps,
             image_size |-> a.image_size,
             patch_size |-> a.patch_size,
             num_channels |-> a.num_channels,
             qkv_bias |-> a.qkv_bias,
             out_indices |-> a.out_indices,
             readout_type |-> a.readout_type,
             reassemble_factors |-> a.reassemble_factors,
             neck_hidden_sizes |-> a.neck_hidden_sizes,
             fusion_hidden_size |-> a.fusion_hidden_size,
             in_index |-> a.in_index,
             use_batch_norm_in_fusion_residual |-> a.use_batch_norm_in_fusion_residual,
             use_auxiliary_head |-> a.use_auxiliary_head,
             auxiliary_loss_weight |-> a.auxiliary_loss_weight,
             semantic_loss_ignore_index |-> a.semantic_loss_ignore_index,
             semantic_classifier_dropout |-> a.semantic_classifier_dropout]]

ListOrder == <<"out_indices", "reassemble_factors", "neck_hidden_sizes">>

\* a slip: an omitted list parameter is bound to a new copy of its default
bind_lists_fresh_default(heap, kwlists) ==
    LET passed == SelectSeq(ListOrder, LAMBDA q : q \in DOMAIN kwlists)
        omitted == SelectSeq(ListOrder, LAMBDA q : q \notin DOMAIN kwlists)
        where(q) == Len(heap) + CHOOSE i \in 1..Len(passed) : passed[i] = q
        fresh(q) == Len(heap) + Len(passed)
                      + CHOOSE i \in 1..Len(omitted) : omitted[i] = q
    IN  [heap |-> heap \o [i \in 1..Len(passed) |-> kwlists[passed[i]]]
                      \o [i \in 1..Len(omitted) |-> heap[DPTSignature[omitted[i]]]],
         at |-> [q \in ListParams |->
                    IF q \in DOMAIN kwlists THEN where(q) ELSE fresh(q)]]

\* the binding of the list parameters of one call: the caller's list objects
\* are created, a parameter passed is bound to the caller's list, a
\* parameter omitted to the default object of the signature: [heap, at]
bind_lists(heap, kwlists) ==
    LET passed == SelectSeq(ListOrder, LAMBDA q : q \in DOMAIN kwlists)
        where(q) == Len(heap) + CHOOSE i \in 1..Len(passed) : passed[i] = q
    IN  [heap |-> heap \o [i \in 1..Len(passed) |-> kwlists[passed[i]]],
         at |-> [q \in ListParams |->
                    IF q \in DOMAIN kwlists THEN where(q) ELSE DPTSignature[q]]]

\* one call DPTConfig(**kw): the caller's lists are created, the parameters
\* are bound, __init__ runs
DPTConstruct ==
    /\ dpt_last.calls < MaxCalls
    /\ \E kw \in Keywords :
         LET bound == bind_lists(py_lists, kw.lists)
             a == [q \in DOMAIN DPTSignature |->
                      IF q \in ListParams THEN bound.at[q]
                      ELSE BindScalar(kw.scalars, q)]
             r == DPTConfig__init__(a)
         IN  /\ py_lists' = bound.heap
             /\ dpt_configs' = IF r.raised = "None"
                               THEN Append(dpt_configs, r.self) ELSE dpt_configs
             /\ dpt_last' = [calls |-> dpt_last.calls + 1, scalars |-> kw.scalars,
                             lists |-> kw.lists, raised |-> r.raised,
                             omitted |-> IF r.raised = "None"
                                         THEN Append(dpt_last.omitted,
                                                     ListParams \ DOMAIN kw.lists)
                                         ELSE dpt_last.omitted]
    /\ UNCHANGED <<rk_vars, cv_vars, of_vars>>

\* config.<list field>.append("99") on a constructed instance
ListAppend ==
    /\ \E i \in 1..Len(dpt_configs), q \in ListParams :
         LET at == dpt_configs[i][q]
         IN  /\ Len(py_lists[at]) < MaxListLen
             /\ py_lists' = [py_lists EXCEPT ![at] = Append(@, "99")]
    /\ UNCHANGED <<dpt_configs, dpt_last>>
    /\ UNCHANGED <<rk_vars, cv_vars, of_vars>>

DPTInit == DPTIdle /\ RenameIdle /\ ConvertIdle /\ OneFormerIdle

DPTNext == DPTConstruct \/ ListAppend

SpecDPT == DPTInit /\ [][DPTNext]_vars

(***************************************************************************)
(* Properties of DPTConfig, checked under SpecDPT.                         *)
(***************************************************************************)
\* the readout_type of the latest call: the keyword, else the default
LastReadoutType == BindScalar(dpt_last.scalars, "readout_type")

\* C1: DPTConfig construction succeeds for every readout_type among "ignore",
\* "add" and "project" and raises ValueError for every other string.
C1_ReadoutType ==
    dpt_last.calls > 0 =>
        IF LastReadoutType \in {"ignore", "add", "project"}
        THEN /\ dpt_last.raised = "None"
             /\ Len(dpt_configs) > 0
             /\ dpt_configs[Len(dpt_configs)].readout_type = LastReadoutType
        ELSE dpt_last.raised = "ValueError"

C1_Witness ==
    /\ dpt_last.calls = 2
    /\ DOMAIN dpt_last.scalars = {"readout_type"}
    /\ dpt_last.scalars["readout_type"] = "Project"
    /\ dpt_last.raised = "ValueError"
    /\ Len(dpt_configs) = 1
    /\ dpt_configs[1].readout_type = "add"

\* the call that has just returned constructed an instance
JustConstructed ==
    /\ dpt_last'.calls = dpt_last.calls + 1
    /\ dpt_last'.raised = "None"

\* C11: a DPTConfig constructed with no arguments has every field equal to
\* the default the class docstring documents, and a field passed explicitly
\* takes the passed value: for every construction, each field is the value
\* passed for it, else its documented default.
C11_DocumentedDefaults ==
    [][JustConstructed =>
         LET cfg == dpt_configs'[Len(dpt_configs')]
             kw == dpt_last'
         IN  /\ \A q \in (DOMAIN DocumentedDefaults) \ ListParams :
                    cfg[q] = IF q \in DOMAIN kw.scalars THEN kw.scalars[q]
                             ELSE DocumentedDefaults[q]
             /\ \A q \in ListParams :
                    py_lists'[cfg[q]] = IF q \in DOMAIN kw.lists THEN kw.lists[q]
                                        ELSE DocumentedDefaults[q]]_vars

\* C14: the list defaults are shared mutable objects: whatever constructions
\* and in-place list changes have happened, any two instances constructed
\* without passing a list field observe the same contents for that field.
C14_SharedDefaults ==
    \A i, j \in 1..Len(dpt_configs) :
        \A q \in dpt_last.omitted[i] \cap dpt_last.omitted[j] :
            py_lists[dpt_configs[i][q]] = py_lists[dpt_configs[j][q]]

C14_Witness ==
    /\ Len(dpt_configs) = 2
    /\ "out_indices" \in dpt_last.omitted[1] \cap dpt_last.omitted[2]
    /\ "neck_hidden_sizes" \notin dpt_last.omitted[2]
    /\ py_lists[dpt_configs[1].out_indices] = <<"2", "5", "8", "11", "99">>
    /\ py_lists[dpt_configs[2].out_indices] = <<"2", "5", "8", "11", "99">>
    /\ py_lists[dpt_configs[1].neck_hidden_sizes]
          # py_lists[dpt_configs[2].neck_hidden_sizes]

(***************************************************************************)
(* OneFormerConfig (configuration_oneformer.py).  An object of of_heap is  *)
(* [kind, cls, items]: None, a dict with its items, or a config object of  *)
(* class cls (named by its model_type) with its attributes.  A value is    *)
(* written as its Python literal.  An argument or a field holds the        *)
(* position of an object, so that a dict can be shared and changed.        *)
(***************************************************************************)
PyNone == [kind |-> "None", cls |-> "", items |-> <<>>]
Dict(items) == [kind |-> "dict", cls |-> "", items |-> items]
Config(cls, attrs) == [kind |-> "config", cls |-> cls, items |-> attrs]

\* a slip: the entry is read and left in the dict
Drop_nothing(items, key) == items

\* dict without the entry of key
Drop(items, key) == [k \in DOMAIN items \ {key} |-> items[k]]

\* OneFormerConfig.model_type and OneFormerConfig.backbones_supported
ONEFORMER_MODEL_TYPE == "oneformer"
backbones_supported == {"swin", "dinat", "maskformer-swin"}

\* _setup_cfg, the default general_config
DefaultGeneralConfig ==
    [ignore_value |-> "255", num_classes |-> "150", num_queries |-> "150",
     no_object_weight |-> "0.1", deep_supervision |-> "True", class_weight |-> "2.0",
     mask_weight |-> "5.0", dice_weight |-> "5.0", contrastive_weight |-> "0.5",
     contrastive_temperature |-> "0.07", train_num_points |-> "12544",
     oversample_ratio |-> "3.0", importance_sample_ratio |-> "0.75",
     init_std |-> "0.02", init_xavier_std |-> "1.0", layer_norm_eps |-> "1e-05",
     is_train |-> "False", use_auxiliary_loss |-> "True",
     output_auxiliary_logits |-> "True", strides |-> "[4, 8, 16, 32]"]

\* _setup_cfg, the keywords of the default MaskFormerSwinConfig(...)
DefaultBackboneKeywords ==
    [image_size |-> "224", in_channels |-> "3", patch_size |-> "4", embed_dim |-> "96",
     depths |-> "[2, 2, 6, 2]", num_heads |-> "[3, 6, 12, 24]", window_size |-> "7",
     drop_path_rate |-> "0.3",
     out_features |-> "['stage1', 'stage2', 'stage3', 'stage4']"]

\* _setup_cfg, the default text_encoder_config
DefaultTextEncoderConfig ==
    [task_seq_len |-> "77", max_seq_len |-> "77", text_encoder_width |-> "256",
     text_encoder_context_length |-> "77", text_encoder_num_layers |-> "6",
     text_encoder_vocab_size |-> "49408", text_encoder_proj_layers |-> "2",
     text_encoder_n_ctx |-> "16"]

\* _setup_cfg, the default decoder_config
DefaultDecoderConfig ==
    [conv_dim |-> "256", mask_dim |-> "256", hidden_dim |-> "256",
     encoder_feedforward_dim |-> "1024", norm |-> "GN", encoder_layers |-> "6",
     decoder_layers |-> "10", use_task_norm |-> "True", num_heads |-> "8",
     dropout |-> "0.1", dim_feedforward |-> "2048", pre_norm |-> "False",
     enforce_input_proj |-> "False", query_dec_layers |-> "2", common_stride |-> "4"]

\* MaskFormerSwinConfig(**keywords): a config object holding the keywords
MaskFormerSwinConfig(keywords) == Config("maskformer-swin", keywords)

\* CONFIG_MAPPING[model_type].from_dict(items): a config object of that class
\* holding the items
from_dict(model_type, items) == Config(model_type, items)

\* <config object>.to_dict(): a dict of the attributes and the model type
backbone_to_dict(obj) == Dict(("model_type" :> obj.cls) @@ obj.items)

\* PretrainedConfig.__init__(**kwargs): the keywords become attributes
PretrainedConfig__init__(attrs, kwargs) == kwargs @@ attrs

\* a slip: the backbone type is not checked
backbone_supported_any(model_type) == TRUE

\* the test `backbone_model_type not in self.backbones_supported`, negated
backbone_supported(model_type) == model_type \in backbones_supported

\* _setup_cfg, the backbone branch: [raised, heap, at]
setup_backbone(heap, backbone_config) ==
    LET obj == heap[backbone_config]
    IN  IF obj.kind = "None"
        THEN [raised |-> "None",
              heap |-> Append(heap, MaskFormerSwinConfig(DefaultBackboneKeywords)),
              at |-> Len(heap) + 1]
        ELSE IF obj.kind = "dict" /\ "model_type" \notin DOMAIN obj.items
        THEN \* backbone_config.pop("model_type") finds no such key
             [raised |-> "KeyError", heap |-> heap, at |-> 0]
        ELSE LET backbone_model_type ==
                     IF obj.kind = "dict" THEN obj.items["model_type"] ELSE obj.cls
                 \* pop removes the entry from the dict itself
                 popped == IF obj.kind = "dict"
                           THEN [heap EXCEPT ![backbone_config] =
                                     Dict(Drop(obj.items, "model_type"))]
                           ELSE heap
             IN  IF ~backbone_supported(backbone_model_type)
                 THEN [raised |-> "ValueError", heap |-> popped, at |-> 0]
                 ELSE IF obj.kind = "dict"
                 THEN [raised |-> "None",
                       heap |-> Append(popped,
                                       from_dict(backbone_model_type,
                                                 popped[backbone_config].items)),
                       at |-> Len(popped) + 1]
                 ELSE [raised |-> "None", heap |-> popped, at |-> backbone_config]

\* an argument that is None is replaced by a new dict of the defaults
OrDefault(heap, arg, defaults) ==
    IF heap[arg].kind = "None"
    THEN [heap |-> Append(heap, Dict(defaults)), at |-> Len(heap) + 1]
    ELSE [heap |-> heap, at |-> arg]

\* OneFormerConfig._setup_cfg: [raised, heap, general_config, backbone_config,
\* text_encoder_config, decoder_config]
_setup_cfg(heap, general_config, backbone_config, text_encoder_config, decoder_config) ==
    LET g == OrDefault(heap, general_config, DefaultGeneralConfig)
        b == setup_backbone(g.heap, backbone_config)
        t == OrDefault(b.heap, text_encoder_config, DefaultTextEncoderConfig)
        d == OrDefault(t.heap, decoder_config, DefaultDecoderConfig)
    IN  IF b.raised # "None"
        THEN [raised |-> b.raised, heap |-> b.heap, general_config |-> 0,
              backbone_config |-> 0, text_encoder_config |-> 0, decoder_config |-> 0]
        ELSE [raised |-> "None", heap |-> d.heap, general_config |-> g.at,
              backbone_config |-> b.at, text_encoder_config |-> t.at,
              decoder_config |-> d.at]

\* a slip: the hidden size is read from the wrong decoder entry
derived_fields_conv_dim(decoder, general) ==
    [hidden_size |-> decoder["conv_dim"],
     num_attention_heads |-> decoder["num_heads"],
     num_hidden_layers |-> decoder["decoder_layers"],
     init_std |-> general["init_std"],
     init_xavier_std |-> general["init_xavier_std"]]

\* OneFormerConfig.__init__, the five derived fields
derived_fields(decoder, general) ==
    [hidden_size |-> decoder["hidden_dim"],
     num_attention_heads |-> decoder["num_heads"],
     num_hidden_layers |-> decoder["decoder_layers"],
     init_std |-> general["init_std"],
     init_xavier_std |-> general["init_xavier_std"]]

\* OneFormerConfig.__init__: [raised, heap, self]
OneFormerConfig__init__(heap, general_config, backbone_config, text_encoder_config, decoder_config, kwargs) ==
    LET cfgs == _setup_cfg(heap, general_config, backbone_config,
                           text_encoder_config, decoder_config)
    IN  IF cfgs.raised # "None"
        THEN [raised |-> cfgs.raised, heap |-> cfgs.heap, self |-> NoConfig]
        ELSE LET decoder == cfgs.heap[cfgs.decoder_config].items
                 general == cfgs.heap[cfgs.general_config].items
             IN  IF \/ {"hidden_dim", "num_heads", "decoder_layers"} \ DOMAIN decoder # {}
                    \/ {"init_std", "init_xavier_std"} \ DOMAIN general # {}
                 THEN [raised |-> "KeyError", heap |-> cfgs.heap, self |-> NoConfig]
                 ELSE [raised |-> "None", heap |-> cfgs.heap,
                       self |->
                         [refs |-> [general_config |-> cfgs.general_config,
                                    backbone_config |-> cfgs.backbone_config,
                                    text_encoder_config |-> cfgs.text_encoder_config,
                                    decoder_config |-> cfgs.decoder_config],
                          attrs |-> PretrainedConfig__init__(
                                        derived_fields(decoder, general), kwargs)]]

\* a slip: output is self.__dict__ itself, not a copy of it
to_dict_no_copy(self, heap) ==
    LET snapshot == backbone_to_dict(heap[self.refs.backbone_config])
        changed == [refs |-> [self.refs EXCEPT !.backbone_config = Len(heap) + 1],
                    attrs |-> ("model_type" :> ONEFORMER_MODEL_TYPE) @@ self.attrs]
        heap2 == Append(heap, snapshot)
    IN  [self |-> changed, heap |-> heap2,
         output |-> [nested |-> [k \in DOMAIN changed.refs |-> heap2[changed.refs[k]]],
                     attrs |-> changed.attrs]]

\* OneFormerConfig.to_dict: [self, heap, output]; output is [nested, attrs],
\* nested holding the copied objects and attrs the plain entries
to_dict(self, heap) ==
    LET \* output = copy.deepcopy(self.__dict__)
        output0 == [nested |-> [k \in DOMAIN self.refs |-> heap[self.refs[k]]],
                    attrs |-> self.attrs]
        \* output["backbone_config"] = self.backbone_config.to_dict()
        output1 == [output0 EXCEPT !.nested.backbone_config =
                        backbone_to_dict(heap[self.refs.backbone_config])]
        \* output["model_type"] = self.__class__.model_type
        output2 == [output1 EXCEPT !.attrs =
                        ("model_type" :> ONEFORMER_MODEL_TYPE) @@ output1.attrs]
    IN  [self |-> self, heap |-> heap, output |-> output2]

(***************************************************************************)
(* The calls on OneFormerConfig.  The four arguments sit at the positions  *)
(* 1..4 of of_heap: general_config, backbone_config, text_encoder_config,  *)
(* decoder_config.                                                         *)
(***************************************************************************)
BackboneTypes == backbones_supported \cup {"resnet", "Swin", ""}

GeneralArgs ==
    {PyNone,
     Dict([init_std |-> "0.01", init_xavier_std |-> "2.0", num_classes |-> "80"]),
     Dict([init_std |-> "0.01", num_classes |-> "80"])}

BackboneArgs ==
    {PyNone, Dict([embed_dim |-> "128"])}
    \cup {Dict([model_type |-> t, embed_dim |-> "128"]) : t \in BackboneTypes}
    \cup {Config(t, [embed_dim |-> "128"]) : t \in BackboneTypes}

TextEncoderArgs == {PyNone, Dict([task_seq_len |-> "40"])}

DecoderArgs ==
    {PyNone,
     Dict([hidden_dim |-> "512", num_heads |-> "16", decoder_layers |-> "6",
           conv_dim |-> "128"]),
     Dict([hidden_dim |-> "512", decoder_layers |-> "6", conv_dim |-> "128"])}

\* the keywords the class docstring documents
KwargsChoices ==
    {[k \in {} |-> ""], [output_attentions |-> "False"],
     [output_hidden_states |-> "False", return_dict |-> "False"]}

\* the attributes a caller assigns on the instance in this model
Assignable == {<<"model_type", "custom">>, <<"output_attentions", "True">>}

OneFormerInit ==
    /\ of_heap \in {<<g, b, t, d>> : g \in GeneralArgs, b \in BackboneArgs,
                                     t \in TextEncoderArgs, d \in DecoderArgs}
    /\ of_args = of_heap
    /\ of_kwargs \in KwargsChoices
    /\ of_config = NoConfig
    /\ of_raised = "NotCalled"
    /\ of_output = NoOutput
    /\ of_last = "idle"
    /\ RenameIdle /\ ConvertIdle /\ DPTIdle

\* OneFormerConfig(general_config, backbone_config, text_encoder_config,
\*                 decoder_config, **kwargs)
OneFormerConstruct ==
    /\ of_raised = "NotCalled"
    /\ LET r == OneFormerConfig__init__(of_heap, 1, 2, 3, 4, of_kwargs)
       IN  /\ of_heap' = r.heap
           /\ of_config' = r.self
           /\ of_raised' = r.raised
    /\ of_last' = "__init__"
    /\ UNCHANGED <<of_args, of_kwargs, of_output>>
    /\ UNCHANGED <<rk_vars, cv_vars, dpt_vars>>

\* config.<attribute> = <value> on the constructed instance
OneFormerSetAttr ==
    /\ of_raised = "None"
    /\ \E kv \in Assignable :
         /\ ~(kv[1] \in DOMAIN of_config.attrs /\ of_config.attrs[kv[1]] = kv[2])
         /\ of_config' = [of_config EXCEPT !.attrs = (kv[1] :> kv[2]) @@ @]
    /\ of_last' = "setattr"
    /\ UNCHANGED <<of_heap, of_args, of_kwargs, of_raised, of_output>>
    /\ UNCHANGED <<rk_vars, cv_vars, dpt_vars>>

\* config.to_dict()
OneFormerToDict ==
    /\ of_raised = "None"
    /\ LET r == to_dict(of_config, of_heap)
       IN  /\ of_config' = r.self
           /\ of_heap' = r.heap
           /\ of_output' = r.output
    /\ of_last' = "to_dict"
    /\ UNCHANGED <<of_args, of_kwargs, of_raised>>
    /\ UNCHANGED <<rk_vars, cv_vars, dpt_vars>>

OneFormerNext == OneFormerConstruct \/ OneFormerSetAttr \/ OneFormerToDict

SpecOneFormer == OneFormerInit /\ [][OneFormerNext]_vars

(***************************************************************************)
(* Properties of OneFormerConfig, checked under SpecOneFormer.             *)
(***************************************************************************)
\* the backbone_config of the call is a dict with a model_type entry or a
\* config object
BackboneTyped ==
    \/ of_args[2].kind = "dict" /\ "model_type" \in DOMAIN of_args[2].items
    \/ of_args[2].kind = "config"

SuppliedBackboneType ==
    IF of_args[2].kind = "dict" THEN of_args[2].items["model_type"] ELSE of_args[2].cls

\* the general_config and decoder_config of the call, by value
EffectiveGeneral ==
    IF of_args[1].kind = "None" THEN DefaultGeneralConfig ELSE of_args[1].items
EffectiveDecoder ==
    IF of_args[4].kind = "None" THEN DefaultDecoderConfig ELSE of_args[4].items

\* the entries __init__ reads are there
SubRecordsUsable ==
    /\ {"init_std", "init_xavier_std"} \subseteq DOMAIN EffectiveGeneral
    /\ {"hidden_dim", "num_heads", "decoder_layers"} \subseteq DOMAIN EffectiveDecoder

\* C2: with a backbone_config that carries a model type, construction raises
\* ValueError exactly when the type is not one of swin, dinat,
\* maskformer-swin; with a supported type (and general and decoder records
\* that hold the entries __init__ reads) it succeeds, the backbone being a
\* config object of that type.
C2_BackboneType ==
    (of_raised # "NotCalled" /\ BackboneTyped) =>
        IF SuppliedBackboneType \in {"swin", "dinat", "maskformer-swin"}
        THEN /\ of_raised # "ValueError"
             /\ SubRecordsUsable =>
                  /\ of_raised = "None"
                  /\ of_heap[of_config.refs.backbone_config].kind = "config"
                  /\ of_heap[of_config.refs.backbone_config].cls = SuppliedBackboneType
        ELSE of_raised = "ValueError"

C2_Witness ==
    /\ of_raised = "ValueError"
    /\ of_args[2].kind = "dict"
    /\ "model_type" \in DOMAIN of_args[2].items
    /\ of_args[2].items["model_type"] = "resnet"

C4_ToDict ==
    /\ [](of_last = "to_dict" =>
            /\ of_output.nested.backbone_config.kind = "dict"
            /\ of_output.nested.backbone_config
                 = backbone_to_dict(of_heap[of_config.refs.backbone_config])
            /\ of_output.attrs["model_type"] = "oneformer")
    /\ [][of_last' = "to_dict" => (of_config' = of_config /\ of_heap' = of_heap)]_vars

C4_Witness ==
    /\ of_last = "to_dict"
    /\ "model_type" \in DOMAIN of_config.attrs
    /\ of_config.attrs["model_type"] = "custom"
    /\ of_output.attrs["model_type"] = "oneformer"
    /\ of_args[2].kind = "dict"
    /\ of_output.nested.backbone_config.items["model_type"] = "dinat"

\* C15: constructing with a dict backbone_config removes the "model_type"
\* entry from the caller's dictionary, whether construction succeeds or
\* fails, and leaves its other entries unchanged; the caller's general_config,
\* text_encoder_config and decoder_config are left unchanged and a
\* dictionary supplied for one of them is the very object the config holds.
C15_CallerDicts ==
    of_raised # "NotCalled" =>
        /\ of_args[2].kind = "dict" =>
              /\ of_heap[2].kind = "dict"
              /\ of_heap[2].items = [k \in DOMAIN of_args[2].items \ {"model_type"} |->
                                        of_args[2].items[k]]
        /\ of_heap[1] = of_args[1]
        /\ of_heap[3] = of_args[3]
        /\ of_heap[4] = of_args[4]
        /\ of_raised = "None" =>
              /\ of_args[1].kind = "dict" => of_config.refs.general_config = 1
              /\ of_args[3].kind = "dict" => of_config.refs.text_encoder_config = 3
              /\ of_args[4].kind = "dict" => of_config.refs.decoder_config = 4

C15_Witness ==
    /\ of_raised = "None"
    /\ of_last = "to_dict"
    /\ of_args[2] = Dict([model_type |-> "swin", embed_dim |-> "128"])
    /\ of_heap[2] = Dict([embed_dim |-> "128"])
    /\ of_args[1].kind = "dict"
    /\ of_config.refs.general_config = 1
    /\ of_heap[1].items = [init_std |-> "0.01", init_xavier_std |-> "2.0",
                           num_classes |-> "80"]

====
